---- MODULE Spec2Model ----
(***************************************************************************)
(* Support Email NLP, src/main.py: a batch run that reads a table of       *)
(* support e-mails, derives urgency, topic, sentiment, summary and         *)
(* auto-reply for every row, and writes the augmented table.               *)
(*                                                                         *)
(* A Python str is a sequence of one-character strings.  None, the float   *)
(* NaN that pandas gives a missing cell, and a raised AttributeError are   *)
(* one-element sequences that no str equals.                               *)
(***************************************************************************)
EXTENDS Integers, Sequences, FiniteSets, TLC

(* ------------------------------ bounds -------------------------------- *)

\* rows of the input table
MaxRows == 2
\* chunks concatenated into a subject or body handed to the classifiers
MaxClassifyChunks == 2
\* chunks concatenated into a raw body handed to clean_text
MaxCleanChunks == 3
\* characters of a text handed to summarize
MaxSumLen == 4
\* largest max_words handed to summarize
MaxWords == 2

(* --------------------------- Python values ---------------------------- *)

None == <<"None">>
NaN == <<"NaN">>
AttributeError == <<"AttributeError">>

Min(a, b) == IF a <= b THEN a ELSE b
Max(a, b) == IF a >= b THEN a ELSE b

\* The element of a set of one element.  Only({F(v) : v \in {e}}) is F(e) with e
\* evaluated once, as Python evaluates an argument; a name that LET gives to e is
\* evaluated again at each of its uses when the model checker evaluates ENABLED.
Only(S) == CHOOSE r \in S : TRUE

\* `text or ''`: None and '' are falsy, a NaN float is truthy
OrEmpty(text) == IF text = None \/ text = <<>> THEN <<>> ELSE text

\* str(v), and v formatted into an f-string
Str(v) == IF v = NaN THEN <<"n","a","n">> ELSE IF v = None THEN <<"N","o","n","e">> ELSE v

\* pd.isna(v)
isna(v) == v = NaN \/ v = None

UPPER == <<"A","B","C","D","E","F","G","H","I","J","K","L","M","N","O","P","Q","R","S","T",
      "U","V","W","X","Y","Z">>
LOWER == <<"a","b","c","d","e","f","g","h","i","j","k","l","m","n","o","p","q","r","s","t",
      "u","v","w","x","y","z">>
LowerChar(c) == IF \E k \in 1..26 : UPPER[k] = c
                THEN LOWER[CHOOSE k \in 1..26 : UPPER[k] = c]
                ELSE c
\* str.lower()
lower(t) == [k \in 1..Len(t) |-> LowerChar(t[k])]

\* t[p:] starts with k
StartsAt(t, p, k) == p + Len(k) - 1 <= Len(t) /\ SubSeq(t, p, p + Len(k) - 1) = k
\* `k in t` for two strs
Contains(k, t) == \E p \in 1..(Len(t) + 1) : StartsAt(t, p, k)
\* any(k in t for k in keys)
AnyIn(keys, t) == \E j \in 1..Len(keys) : Contains(keys[j], t)

\* the characters str.strip() and str.split() treat as whitespace
Whitespace == {" ", "\t", "\n", "\r", "\f"}
IsSpace(c) == c \in Whitespace

\* str.strip()
strip(t) ==
    LET keep == {k \in 1..Len(t) : ~IsSpace(t[k])}
    IN  IF keep = {} THEN <<>>
        ELSE SubSeq(t, CHOOSE a \in keep : \A b \in keep : a <= b,
                       CHOOSE a \in keep : \A b \in keep : a >= b)

\* the members of K within lo..hi in ascending order (by halves, so that the
\* evaluation nests to a depth of log(hi - lo))
RECURSIVE Ascending(_, _, _)
Ascending(K, lo, hi) ==
    IF lo > hi THEN <<>>
    ELSE IF lo = hi THEN (IF lo \in K THEN <<lo>> ELSE <<>>)
    ELSE Ascending(K, lo, (lo + hi) \div 2) \o Ascending(K, (lo + hi) \div 2 + 1, hi)

\* t with only the characters at the positions K
KeepAt(t, K) == Only({[j \in 1..Len(at) |-> t[at[j]]] : at \in {Ascending(K, 1, Len(t))}})

\* str.split(): the maximal runs of non-whitespace, in order
split(t) ==
    LET starts == {p \in 1..Len(t) : ~IsSpace(t[p]) /\ (p = 1 \/ IsSpace(t[p - 1]))}
        last(p) == CHOOSE e \in p..Len(t) :
                      /\ \A q \in p..e : ~IsSpace(t[q])
                      /\ (e = Len(t) \/ IsSpace(t[e + 1]))
    IN  Only({[j \in 1..Len(first) |-> SubSeq(t, first[j], last(first[j]))] :
                first \in {Ascending(starts, 1, Len(t))}})

\* sep.join(words[lo..hi]), by halves
RECURSIVE JoinRange(_, _, _, _)
JoinRange(sep, words, lo, hi) ==
    IF lo > hi THEN <<>>
    ELSE IF lo = hi THEN words[lo]
    ELSE JoinRange(sep, words, lo, (lo + hi) \div 2) \o sep
           \o JoinRange(sep, words, (lo + hi) \div 2 + 1, hi)

\* sep.join(words)
join(sep, words) == JoinRange(sep, words, 1, Len(words))

\* words[:n], a negative n counting from the end
SliceTo(words, n) ==
    IF n >= 0 THEN SubSeq(words, 1, Min(n, Len(words)))
    ELSE SubSeq(words, 1, Max(0, Len(words) + n))

(* ------------------------------ clean_text ---------------------------- *)

\* re.sub(r"\r\n", "\n", text): every \r that a \n follows is dropped
SubCRLF(t) == KeepAt(t, {p \in 1..Len(t) : ~StartsAt(t, p, <<"\r","\n">>)})

\* re.sub(r"\n{2,}", "\n\n", text): of every run of \n the first two are kept
CollapseNewlines(t) == KeepAt(t, {p \in 1..Len(t) : ~(p > 2 /\ StartsAt(t, p - 2, <<"\n",
      "\n","\n">>))})

\* the alternatives of the pattern of re.split
Boundaries == <<<<"\n","-","-","\n">>, <<"\n","R","e","g","a","r","d","s",",">>, <<"\n","B",
      "e","s","t",",">>, <<"\n","T","h","a","n","k","s",",">>>>
MatchAt(t, p) == \E j \in 1..Len(Boundaries) : StartsAt(t, p, Boundaries[j])

\* re.split(pattern, text)[0]: the text before the leftmost match, all of it without one
SplitFirst(t) ==
    LET hits == {p \in 1..Len(t) : MatchAt(t, p)}
    IN  IF hits = {} THEN t
        ELSE SubSeq(t, 1, (CHOOSE p \in hits : \A q \in hits : p <= q) - 1)

clean_text(text) ==
    IF isna(text) THEN <<>>
    ELSE Only({strip(d) : d \in
           {SplitFirst(c) : c \in
             {CollapseNewlines(b) : b \in
               {SubCRLF(a) : a \in {Str(text)}}}}})

(* ----------------------------- classifiers ---------------------------- *)

S_low == <<"l","o","w">>
S_medium == <<"m","e","d","i","u","m">>
S_high == <<"h","i","g","h">>
HighKeywords == <<<<"u","r","g","e","n","t">>, <<"c","r","i","t","i","c","a","l">>, <<"i",
      "m","m","e","d","i","a","t","e">>, <<"d","o","w","n","t","i","m","e">>, <<"b","l","o",
      "c","k","e","d">>>>
MediumKeywords == <<<<"h","e","l","p">>, <<"s","u","p","p","o","r","t">>, <<"i","s","s","u",
      "e">>, <<"p","r","o","b","l","e","m">>, <<"e","r","r","o","r">>>>

detect_urgency(text) ==
    IF OrEmpty(text) = NaN THEN AttributeError
    ELSE Only({IF AnyIn(HighKeywords, t) THEN S_high
               ELSE IF AnyIn(MediumKeywords, t) THEN S_medium
               ELSE S_low : t \in {lower(OrEmpty(text))}})

T_billing == <<"b","i","l","l","i","n","g","/","r","e","f","u","n","d">>
T_login == <<"l","o","g","i","n","/","a","c","c","o","u","n","t">>
T_integration == <<"i","n","t","e","g","r","a","t","i","o","n","/","a","p","i">>
T_system == <<"s","y","s","t","e","m","/","d","o","w","n","t","i","m","e">>
T_general == <<"g","e","n","e","r","a","l">>

detect_topic(text) ==
    IF OrEmpty(text) = NaN THEN AttributeError
    ELSE Only({
                IF Contains(<<"b","i","l","l","i","n","g">>, t) \/ Contains(<<"r","e","f",
                      "u","n","d">>, t) \/ Contains(<<"p","r","i","c","i","n","g">>, t)
                  THEN T_billing
                ELSE IF Contains(<<"l","o","g","i","n">>, t) \/ Contains(<<"p","a","s","s",
                      "w","o","r","d">>, t)
                        \/ Contains(<<"a","c","c","o","u","n","t">>, t) \/ Contains(<<"a",
                              "c","c","e","s","s">>, t)
                  THEN T_login
                ELSE IF Contains(<<"i","n","t","e","g","r","a","t","i","o","n">>,
                       t) \/ Contains(<<"a","p","i">>, t) \/ Contains(<<"c","r","m">>, t)
                  THEN T_integration
                ELSE IF Contains(<<"d","o","w","n","t","i","m","e">>, t) \/ Contains(<<"s",
                      "y","s","t","e","m">>, t) \/ Contains(<<"o","u","t","a","g","e">>, t)
                  THEN T_system
                ELSE T_general : t \in {lower(OrEmpty(text))}})

S_positive == <<"p","o","s","i","t","i","v","e">>
S_negative == <<"n","e","g","a","t","i","v","e">>
S_neutral == <<"n","e","u","t","r","a","l">>
PositiveKeywords == <<<<"t","h","a","n","k">>, <<"g","r","e","a","t">>, <<"a","p","p","r",
      "e","c","i","a","t","e">>, <<"g","o","o","d">>, <<"l","o","v","e">>>>
NegativeKeywords == <<<<"a","n","g","r","y">>, <<"b","a","d">>, <<"w","o","r","s","t">>, <<
      "u","n","a","c","c","e","p","t","a","b","l","e">>, <<"t","e","r","r","i","b","l","e"
      >>>>

simple_sentiment(text) ==
    IF OrEmpty(text) = NaN THEN AttributeError
    ELSE Only({IF AnyIn(PositiveKeywords, t) THEN S_positive
               ELSE IF AnyIn(NegativeKeywords, t) THEN S_negative
               ELSE S_neutral : t \in {lower(OrEmpty(text))}})

(* ----------------------- summarize, generate_reply -------------------- *)

DefaultMaxWords == 25

\* summarize with >= for >
summarize_Ge(text, max_words) ==
    Only({join(<<" ">>, SliceTo(words, max_words))
            \o (IF Len(words) >= max_words THEN <<".",".",".">> ELSE <<>>) :
          words \in {split(t) : t \in {Str(OrEmpty(text))}}})

summarize(text, max_words) ==
    Only({join(<<" ">>, SliceTo(words, max_words))
            \o (IF Len(words) > max_words THEN <<".",".",".">> ELSE <<>>) :
          words \in {split(t) : t \in {Str(OrEmpty(text))}}})

\* row is the dict {'sender', 'subject_topic', 'likely_urgency'}
generate_reply(row) ==
    IF row.likely_urgency = S_high
      THEN <<"D","e","a","r"," ">> \o Str(row.sender) \o <<",","\n","\n","W","e"," ","u",
            "n","d","e","r","s","t","a","n","d"," ","y","o","u","r"," ","i","s","s","u","e",
            " ","i","s"," ","u","r","g","e","n","t"," ","r","e","g","a","r","d","i","n","g",
            " ">>
             \o Str(row.subject_topic)
             \o <<"."," ","O","u","r"," ","t","e","a","m"," ","i","s"," ","a","l","r","e",
                   "a","d","y"," ","w","o","r","k","i","n","g"," ","o","n"," ","i","t"," ",
                   "a","n","d"," ","w","i","l","l"," ","u","p","d","a","t","e"," ","y","o",
                   "u"," ","s","h","o","r","t","l","y",".","\n","\n","B","e","s","t"," ",
                   "r","e","g","a","r","d","s",",","\n","S","u","p","p","o","r","t"," ","T",
                   "e","a","m">>
    ELSE IF row.likely_urgency = S_medium
      THEN <<"D","e","a","r"," ">> \o Str(row.sender) \o <<",","\n","\n","T","h","a","n",
            "k"," ","y","o","u"," ","f","o","r"," ","r","e","a","c","h","i","n","g"," ","o",
            "u","t"," ","a","b","o","u","t"," ">>
             \o Str(row.subject_topic)
             \o <<"."," ","W","e"," ","a","r","e"," ","r","e","v","i","e","w","i","n","g",
                   " ","y","o","u","r"," ","r","e","q","u","e","s","t"," ","a","n","d"," ",
                   "w","i","l","l"," ","g","e","t"," ","b","a","c","k"," ","s","o","o","n",
                   ".","\n","\n","B","e","s","t"," ","r","e","g","a","r","d","s",",","\n",
                   "S","u","p","p","o","r","t"," ","T","e","a","m">>
    ELSE <<"D","e","a","r"," ">> \o Str(row.sender) \o <<",","\n","\n","T","h","a","n","k",
          "s"," ","f","o","r"," ","c","o","n","t","a","c","t","i","n","g"," ","u","s",".",
          " ","W","e"," ","n","o","t","e","d"," ","y","o","u","r"," ","q","u","e","r","y",
          " ","a","b","o","u","t"," ">>
             \o Str(row.subject_topic)
             \o <<" ","a","n","d"," ","w","i","l","l"," ","r","e","s","p","o","n","d"," ",
                   "i","n"," ","d","u","e"," ","c","o","u","r","s","e",".","\n","\n","B",
                   "e","s","t"," ","r","e","g","a","r","d","s",",","\n","S","u","p","p","o",
                   "r","t"," ","T","e","a","m">>

(* ------------------------------- state -------------------------------- *)

VARIABLES
    inputExists,      \* os.path.exists(DATA_IN)
    csv,              \* the table in the input file: its columns and its rows
    OPENAI_API_KEY,   \* os.environ.get('OPENAI_API_KEY')
    openaiInstalled,  \* whether `import openai` succeeds
    pc,               \* the statement of main / try_openai_summary_and_reply to run next
    df,               \* the data frame of main
    i,                \* the row df.iterrows() is at
    summary,          \* local of try_openai_summary_and_reply
    s, rep,           \* locals of main's loop body
    summaries, replies,
    exchanges,        \* the ChatCompletion.create calls made so far, and what each gave
    printed,          \* what was printed
    makedirsCalls,    \* calls of os.makedirs('output')
    OUT,              \* the tables written to output/processed_emails.csv, in order
    call, arg, ret    \* a function applied on its own: its name or stage, argument, result

mainVars == <<inputExists, csv, OPENAI_API_KEY, openaiInstalled, pc, df, i, summary, s, rep,
              summaries, replies, exchanges, printed, makedirsCalls, OUT>>
vars == <<inputExists, csv, OPENAI_API_KEY, openaiInstalled, pc, df, i, summary, s, rep,
          summaries, replies, exchanges, printed, makedirsCalls, OUT, call, arg, ret>>

(* --------------------------- the input table -------------------------- *)

Cols == {"sender", "subject", "body"}

\* rows of an input file; read_csv gives a missing cell as NaN, any other as a non-empty str
Body27 == <<"I"," ","a","m"," ","b","l","o","c","k","e","d",","," ","a"," ","b"," ","c"," ",
      "d"," ","e"," ","f"," ","g"," ","h"," ","i"," ","j"," ","k"," ","l"," ","m"," ","n",
      " ","o"," ","p"," ","q"," ","r"," ","s"," ","t"," ","u"," ","v"," ","w"," ","x"," ",
      "p","l","e","a","s","e"," ","h","e","l","p","\r","\n","R","e","g","a","r","d","s",",",
      "\r","\n","B","o","b">>
RowSamples ==
    { [sender |-> NaN, subject |-> NaN, body |-> NaN],
      [sender |-> <<"B","o","b">>, subject |-> <<"U","R","G","E","N","T",":"," ","l","o",
            "g","i","n"," ","i","s","s","u","e">>, body |-> Body27] }

\* the files with the columns cols and 1..MaxRows rows
FilesWith(cols) ==
    { [columns |-> cols, rows |-> [k \in DOMAIN f |-> [c \in cols |-> f[k][c]]]] :
        f \in UNION {[1..n -> RowSamples] : n \in 1..MaxRows} }
Files == UNION {FilesWith(cols) : cols \in SUBSET Cols}
NoFile == [columns |-> {}, rows |-> <<>>]

\* what an exchange with the external generator can do: raise, or return a response
\* whose choices are empty or hold one message, of content None or a str
Ok == <<"O","k",".">>
ExtContents == {None, <<>>, <<" ">>, <<" ">> \o Ok \o <<"\n">>}
ExtResponses ==
    {[raised |-> TRUE, choices |-> <<>>]}
      \cup {[raised |-> FALSE, choices |-> <<>>]}
      \cup {[raised |-> FALSE, choices |-> <<m>>] : m \in ExtContents}

\* resp.choices[0].message['content'].strip() if resp and resp.choices else None
ContentOf(resp) ==
    IF resp.choices = <<>> THEN None
    ELSE IF resp.choices[1] = None THEN AttributeError
    ELSE strip(resp.choices[1])

\* whether the statements of one exchange raise
Raises(resp) == resp.raised \/ ContentOf(resp) = AttributeError

(* ------------------------------- main --------------------------------- *)

Init ==
    /\ inputExists \in BOOLEAN
    /\ csv \in (IF inputExists THEN Files ELSE {NoFile})
    /\ OPENAI_API_KEY \in {None, <<>>, <<"s","k">>}
    /\ openaiInstalled \in BOOLEAN
    /\ pc = "main"
    /\ df = <<>>
    /\ i = 0
    /\ summary = None /\ s = None /\ rep = None
    /\ summaries = <<>> /\ replies = <<>>
    /\ exchanges = <<>> /\ printed = <<>>
    /\ makedirsCalls = 0 /\ OUT = <<>>
    /\ call = "idle" /\ arg = <<>> /\ ret = <<>>

\* CheckInput without the return
CheckInput_NoReturn ==
    /\ pc = "main"
    /\ printed' = IF inputExists THEN printed ELSE Append(printed, "Input file not found at")
    /\ pc' = "read_csv"
    /\ UNCHANGED <<inputExists, csv, OPENAI_API_KEY, openaiInstalled, df, i, summary, s, rep,
                   summaries, replies, exchanges, makedirsCalls, OUT, call, arg, ret>>

\* if not os.path.exists(DATA_IN): print(...); return
CheckInput ==
    /\ pc = "main"
    /\ IF ~inputExists
         THEN /\ printed' = Append(printed, "Input file not found at")
              /\ pc' = "done"
         ELSE /\ pc' = "read_csv"
              /\ UNCHANGED printed
    /\ UNCHANGED <<inputExists, csv, OPENAI_API_KEY, openaiInstalled, df, i, summary, s, rep,
                   summaries, replies, exchanges, makedirsCalls, OUT, call, arg, ret>>

\* df = pd.read_csv(DATA_IN), and a column the file lacks set to ''
ReadCsv ==
    /\ pc = "read_csv"
    /\ df' = [k \in 1..Len(csv.rows) |->
                [c \in Cols |-> IF c \in csv.columns THEN csv.rows[k][c] ELSE <<>>]]
    /\ pc' = "enrich"
    /\ UNCHANGED <<inputExists, csv, OPENAI_API_KEY, openaiInstalled, i, summary, s, rep,
                   summaries, replies, exchanges, printed, makedirsCalls, OUT, call, arg, ret>>

\* fillna forgotten
fillna_None(v) == v

\* Series.fillna('')
fillna(v) == IF isna(v) THEN <<>> ELSE v

\* order = {'low':0,'medium':1,'high':2}
order(u) == IF u = S_low THEN 0 ELSE IF u = S_medium THEN 1 ELSE 2

\* likely_urgency with the comparison turned round
likely_urgency_Min(urg_subj, urg_body) ==
    IF order(urg_subj) <= order(urg_body) THEN urg_subj ELSE urg_body

\* r['urg_subj'] if order[r['urg_subj']] >= order[r['urg_body']] else r['urg_body']
likely_urgency(urg_subj, urg_body) ==
    IF order(urg_subj) >= order(urg_body) THEN urg_subj ELSE urg_body

\* the derived columns of one row
EnrichRow(r) ==
    LET subject == fillna(r.subject)
        body == fillna(r.body)
    IN  Only({LET urg_subj == detect_urgency(subject)
                  urg_body == detect_urgency(clean_body)
              IN  [sender |-> r.sender, subject |-> subject, body |-> body,
                   clean_body |-> clean_body, urg_subj |-> urg_subj, urg_body |-> urg_body,
                   likely_urgency |-> likely_urgency(urg_subj, urg_body),
                   subject_topic |-> detect_topic(subject),
                   sentiment |-> simple_sentiment(clean_body)] :
                clean_body \in {clean_text(body)}})

\* whether a classifier applied to a column raised
EnrichRaises(r) ==
    AttributeError \in {r.urg_subj, r.urg_body, r.subject_topic, r.sentiment}

\* the column assignments of main; an exception of a classifier ends the run
Enrich ==
    /\ pc = "enrich"
    /\ \E rows \in {[k \in 1..Len(df) |-> EnrichRow(df[k])]} :
         IF \E k \in 1..Len(df) : EnrichRaises(rows[k])
           THEN pc' = "crashed" /\ UNCHANGED <<df, i>>
           ELSE df' = rows /\ i' = 1 /\ pc' = "call"
    /\ UNCHANGED <<inputExists, csv, OPENAI_API_KEY, openaiInstalled, summary, s, rep,
                   summaries, replies, exchanges, printed, makedirsCalls, OUT, call, arg, ret>>

\* GetKey without `if not key: return None, None`
GetKey_NoCheck ==
    /\ pc = "call"
    /\ pc' = "import"
    /\ UNCHANGED <<inputExists, csv, OPENAI_API_KEY, openaiInstalled, df, i, summary, s, rep,
                   summaries, replies, exchanges, printed, makedirsCalls, OUT, call, arg, ret>>

\* key = os.environ.get('OPENAI_API_KEY'); if not key: return None, None
GetKey ==
    /\ pc = "call"
    /\ IF OPENAI_API_KEY = None \/ OPENAI_API_KEY = <<>>
         THEN s' = None /\ rep' = None /\ pc' = "fallback"
         ELSE pc' = "import" /\ UNCHANGED <<s, rep>>
    /\ UNCHANGED <<inputExists, csv, OPENAI_API_KEY, openaiInstalled, df, i, summary,
                   summaries, replies, exchanges, printed, makedirsCalls, OUT, call, arg, ret>>

\* no except clause: the exception leaves main
ExceptHandler_Propagate ==
    /\ pc' = "crashed"
    /\ UNCHANGED <<summary, s, rep, printed>>

\* except Exception as e: print(...); return None, None
ExceptHandler ==
    /\ printed' = Append(printed, "OpenAI call failed, falling back to heuristics:")
    /\ summary' = None
    /\ s' = None
    /\ rep' = None
    /\ pc' = "fallback"

\* import openai; openai.api_key = key
ImportOpenai ==
    /\ pc = "import"
    /\ IF openaiInstalled
         THEN pc' = "summary_exchange" /\ UNCHANGED <<summary, s, rep, printed>>
         ELSE ExceptHandler
    /\ UNCHANGED <<inputExists, csv, OPENAI_API_KEY, openaiInstalled, df, i,
                   summaries, replies, exchanges, makedirsCalls, OUT, call, arg, ret>>

\* the first ChatCompletion.create and the summary taken from its response
SummaryExchange ==
    /\ pc = "summary_exchange"
    /\ \E resp \in ExtResponses :
         /\ exchanges' = Append(exchanges,
                                [row |-> i, kind |-> "summary", raised |-> Raises(resp),
                                 result |-> IF Raises(resp) THEN None ELSE ContentOf(resp)])
         /\ IF Raises(resp)
              THEN ExceptHandler
              ELSE /\ summary' = ContentOf(resp)
                   /\ pc' = "reply_exchange"
                   /\ UNCHANGED <<s, rep, printed>>
    /\ UNCHANGED <<inputExists, csv, OPENAI_API_KEY, openaiInstalled, df, i,
                   summaries, replies, makedirsCalls, OUT, call, arg, ret>>

\* ReplyExchange with an except clause that returns the summary it has
ReplyExchange_KeepSummary ==
    /\ pc = "reply_exchange"
    /\ \E resp \in ExtResponses :
         /\ exchanges' = Append(exchanges,
                                [row |-> i, kind |-> "reply", raised |-> Raises(resp),
                                 result |-> IF Raises(resp) THEN None ELSE ContentOf(resp)])
         /\ s' = summary
         /\ rep' = IF Raises(resp) THEN None ELSE ContentOf(resp)
         /\ summary' = None
         /\ pc' = "fallback"
         /\ printed' = IF Raises(resp)
                         THEN Append(printed, "OpenAI call failed, falling back to heuristics:")
                         ELSE printed
    /\ UNCHANGED <<inputExists, csv, OPENAI_API_KEY, openaiInstalled, df, i,
                   summaries, replies, makedirsCalls, OUT, call, arg, ret>>

\* the second ChatCompletion.create, the reply taken from its response, and the return
ReplyExchange ==
    /\ pc = "reply_exchange"
    /\ \E resp \in ExtResponses :
         /\ exchanges' = Append(exchanges,
                                [row |-> i, kind |-> "reply", raised |-> Raises(resp),
                                 result |-> IF Raises(resp) THEN None ELSE ContentOf(resp)])
         /\ IF Raises(resp)
              THEN ExceptHandler
              ELSE /\ s' = summary
                   /\ rep' = ContentOf(resp)
                   /\ summary' = None
                   /\ pc' = "fallback"
                   /\ UNCHANGED printed
    /\ UNCHANGED <<inputExists, csv, OPENAI_API_KEY, openaiInstalled, df, i,
                   summaries, replies, makedirsCalls, OUT, call, arg, ret>>

\* the dict main hands to generate_reply
ReplyArgs(row) ==
    [sender |-> row.sender, subject_topic |-> row.subject_topic,
     likely_urgency |-> row.likely_urgency]

\* if s is None: s = summarize(row['clean_body'])
SummaryOrFallback(v, row) == IF v = None THEN summarize(row.clean_body, DefaultMaxWords) ELSE v

\* if rep is None: rep = generate_reply({...})
ReplyOrFallback(v, row) == IF v = None THEN generate_reply(ReplyArgs(row)) ELSE v

\* the rest of the loop body, and the step of the loop to the next row
Fallback ==
    /\ pc = "fallback"
    /\ summaries' = Append(summaries, SummaryOrFallback(s, df[i]))
    /\ replies' = Append(replies, ReplyOrFallback(rep, df[i]))
    /\ s' = None /\ rep' = None
    /\ IF i < Len(df)
         THEN i' = i + 1 /\ pc' = "call"
         ELSE i' = i /\ pc' = "save"
    /\ UNCHANGED <<inputExists, csv, OPENAI_API_KEY, openaiInstalled, df, summary,
                   exchanges, printed, makedirsCalls, OUT, call, arg, ret>>

\* df['summary'] = summaries; df['auto_reply'] = replies; makedirs; to_csv; print
Save ==
    /\ pc = "save"
    /\ df' = [k \in 1..Len(df) |->
                [c \in DOMAIN df[k] \cup {"summary", "auto_reply"} |->
                   IF c = "summary" THEN summaries[k]
                   ELSE IF c = "auto_reply" THEN replies[k]
                   ELSE df[k][c]]]
    /\ makedirsCalls' = makedirsCalls + 1
    /\ OUT' = Append(OUT, df')
    /\ printed' = Append(printed, "Processed output saved to")
    /\ pc' = "done"
    /\ UNCHANGED <<inputExists, csv, OPENAI_API_KEY, openaiInstalled, i, summary, s, rep,
                   summaries, replies, exchanges, call, arg, ret>>

Next ==
    \/ CheckInput
    \/ ReadCsv
    \/ Enrich
    \/ GetKey
    \/ ImportOpenai
    \/ SummaryExchange
    \/ ReplyExchange
    \/ Fallback
    \/ Save

Spec == Init /\ [][Next]_vars

\* The run is one sequential process: a statement that can run does run, and an
\* exchange returns or raises.  The runs over an input file that has all its columns.
FairInit == Init /\ inputExists /\ csv.columns = Cols
FairSpec == FairInit /\ [][Next]_vars /\ WF_vars(Next)

(* ------------------- the functions applied on their own --------------- *)

\* the concatenation of the chunks cs
RECURSIVE Concat(_)
Concat(cs) == IF cs = <<>> THEN <<>> ELSE cs[1] \o Concat(Tail(cs))

\* the texts made of at most n chunks of vocab
TextsOf(vocab, n) == {Concat(cs) : cs \in UNION {[1..k -> vocab] : k \in 0..n}}

\* main is not running
MainIdle ==
    /\ inputExists = FALSE /\ csv = NoFile
    /\ OPENAI_API_KEY = None /\ openaiInstalled = FALSE
    /\ pc = "idle" /\ df = <<>> /\ i = 0
    /\ summary = None /\ s = None /\ rep = None
    /\ summaries = <<>> /\ replies = <<>>
    /\ exchanges = <<>> /\ printed = <<>>
    /\ makedirsCalls = 0 /\ OUT = <<>>

\* subjects and bodies of one row: a missing cell, '' of a missing column, or a text
ClassifyChunks == {<<"u","r","g">>, <<"E","N","T">>, <<"G","o","o","d"," ","H","e","l","p"
      >>, <<"\n","B","e","s","t",",">>, <<"B","l","o","c","k","e","d"," ","l","o","g","i",
      "n">>}
ClassifyCells == {NaN} \cup TextsOf(ClassifyChunks, MaxClassifyChunks)

InitClassify ==
    /\ MainIdle
    /\ call = "row"
    /\ arg \in [sender : {NaN}, subject : ClassifyCells, body : ClassifyCells]
    /\ ret = <<>>

\* the column assignments of main on the one row arg
ClassifyRow ==
    /\ call = "row"
    /\ ret' = EnrichRow(arg)
    /\ call' = "enriched"
    /\ UNCHANGED <<arg, mainVars>>

NextClassify == ClassifyRow
SpecClassify == InitClassify /\ [][NextClassify]_vars

\* raw bodies
CleanChunks == {<<"H","i">>, <<" ">>, <<"\n">>, <<"\r","\n">>, <<"-","-">>, <<"R","e","g",
      "a","r","d","s",",">>, <<"B","e","s","t",",">>, <<"T","h","a","n","k","s",",">>}

InitClean ==
    /\ MainIdle
    /\ call = "text"
    /\ arg \in TextsOf(CleanChunks, MaxCleanChunks)
    /\ ret = <<>>

ApplyCleanText ==
    /\ call = "text"
    /\ ret' = clean_text(arg)
    /\ call' = "clean_text"
    /\ UNCHANGED <<arg, mainVars>>

NextClean == ApplyCleanText
SpecClean == InitClean /\ [][NextClean]_vars

\* texts and word limits
SumChars == {"a", "b", " ", "\n"}
SumTexts == UNION {[1..n -> SumChars] : n \in 0..MaxSumLen}
SumExamples == {[text |-> <<"a"," ","b"," ","c">>, max_words |-> 5], [text |-> <<"a"," ",
      "b"," ","c"," ","d"," ","e"," ","f">>, max_words |-> 5]}

InitSummarize ==
    /\ MainIdle
    /\ call = "text"
    /\ arg \in [text : SumTexts, max_words : -1..MaxWords] \cup SumExamples
    /\ ret = <<>>

ApplySummarize ==
    /\ call = "text"
    /\ ret' = summarize(arg.text, arg.max_words)
    /\ call' = "summarize"
    /\ UNCHANGED <<arg, mainVars>>

NextSummarize == ApplySummarize
SpecSummarize == InitSummarize /\ [][NextSummarize]_vars

(* ------------------------- properties of main ------------------------- *)

\* the rows whose loop body has run to its end
Completed == 1..Len(summaries)

\* the exchanges made for row r
ExchangesOf(r) == {n \in 1..Len(exchanges) : exchanges[n].row = r}
ExchangeOf(r, kind) == {n \in ExchangesOf(r) : exchanges[n].kind = kind}

KeyConfigured == OPENAI_API_KEY # None /\ OPENAI_API_KEY # <<>>

\* what the Summarizer and the Reply Generator give for row r
DeterministicSummary(r) == summarize(df[r].clean_body, DefaultMaxWords)
DeterministicReply(r) ==
    generate_reply([sender |-> df[r].sender, subject_topic |-> df[r].subject_topic,
                    likely_urgency |-> df[r].likely_urgency])

\* C1: without a configured credential no exchange is attempted for any row, and a
\* row for which the credential is missing, or for which every exchange that was
\* attempted raised, gets summarize(clean_body) with the limit of 25 words as its
\* summary and generate_reply(sender, subject_topic, likely_urgency) as its auto_reply.
C1_FallbackWhenUnavailable ==
    /\ ~KeyConfigured => exchanges = <<>>
    /\ \A r \in Completed :
         (~KeyConfigured \/ \A n \in ExchangesOf(r) : exchanges[n].raised)
           => /\ summaries[r] = DeterministicSummary(r)
              /\ replies[r] = DeterministicReply(r)

\* a finished run with a configured credential whose every exchange raised, over two rows
C1_Witness ==
    /\ pc = "done" /\ KeyConfigured /\ Len(summaries) = 2
    /\ ExchangesOf(1) # {} /\ ExchangesOf(2) # {}
    /\ \A n \in 1..Len(exchanges) : exchanges[n].raised

\* whether a text an exchange returned is empty or absent
EmptyOrAbsent(text) == text = None \/ text = <<>>

\* C2: for a row both of whose exchanges completed without raising, each field
\* falls back on its own: summary is summarize(clean_body) if the summary exchange
\* returned an empty or absent text and the returned text otherwise, and auto_reply
\* is generate_reply(...) if the reply exchange returned an empty or absent text and
\* the returned text otherwise.
C2_PerFieldFallback ==
    \A r \in Completed :
      \A a \in ExchangeOf(r, "summary") : \A b \in ExchangeOf(r, "reply") :
        (~exchanges[a].raised /\ ~exchanges[b].raised)
          => /\ summaries[r] = IF EmptyOrAbsent(exchanges[a].result)
                                 THEN DeterministicSummary(r)
                                 ELSE exchanges[a].result
             /\ replies[r] = IF EmptyOrAbsent(exchanges[b].result)
                               THEN DeterministicReply(r)
                               ELSE exchanges[b].result

\* C4: when the input table does not exist, the run prints its message and ends;
\* it reads and processes no row, attempts no exchange, does not create the output
\* directory and writes no output table.
C4_MissingInputAborts ==
    ~inputExists =>
      /\ pc \in {"main", "done"}
      /\ pc = "done" => printed = <<"Input file not found at">>
      /\ df = <<>> /\ summaries = <<>> /\ replies = <<>>
      /\ exchanges = <<>>
      /\ makedirsCalls = 0
      /\ OUT = <<>>

\* the run over a missing input table has ended
C4_Witness == ~inputExists /\ pc = "done" /\ printed # <<>> /\ KeyConfigured

\* whether the input file has no value in column c of row r
MissingCell(r, c) == c \in csv.columns /\ csv.rows[r][c] = NaN

\* the reply templates with the empty string for {sender}
ReplyToNobody(r) ==
    generate_reply([sender |-> <<>>, subject_topic |-> df[r].subject_topic,
                    likely_urgency |-> df[r].likely_urgency])

\* C9: a missing cell of sender, subject or body is the empty string wherever it is
\* used: the classifiers and clean_text are handed '' for a missing subject or
\* body, and the deterministic auto_reply of a row whose sender is missing is the
\* template of its urgency with '' for {sender}, which begins "Dear ,".
C9_MissingCellIsEmpty ==
    /\ \A r \in 1..Len(df) : \A c \in {"subject", "body"} :
         (pc \notin {"read_csv", "enrich"} /\ MissingCell(r, c)) => df[r][c] = <<>>
    /\ \A r \in Completed :
         (MissingCell(r, "sender") /\ ~KeyConfigured)
           => /\ replies[r] = ReplyToNobody(r)
              /\ StartsAt(replies[r], 1, <<"D","e","a","r"," ",",">>)

\* C10: within a row the summary exchange comes before the reply exchange; a row
\* whose summary exchange raised has no reply exchange; a row whose reply exchange
\* raised gets the deterministic summary and auto_reply, whatever its summary
\* exchange returned; and every row of a run with a usable generator gets its
\* summary exchange, and after a summary exchange that did not raise its reply
\* exchange, whatever happened in the rows before it.
C10_AllOrNothingPerRow ==
    /\ \A n \in 1..Len(exchanges) :
         /\ exchanges[n].kind = "reply" =>
              /\ n > 1
              /\ exchanges[n - 1].row = exchanges[n].row
              /\ exchanges[n - 1].kind = "summary"
              /\ ~exchanges[n - 1].raised
         /\ \A m \in 1..Len(exchanges) :
              (m # n /\ exchanges[m].row = exchanges[n].row)
                => exchanges[m].kind # exchanges[n].kind
    /\ \A r \in 1..Len(df) :
         (\E n \in ExchangeOf(r, "summary") : exchanges[n].raised)
           => ExchangeOf(r, "reply") = {}
    /\ \A r \in Completed :
         (\E n \in ExchangeOf(r, "reply") : exchanges[n].raised)
           => /\ summaries[r] = DeterministicSummary(r)
              /\ replies[r] = DeterministicReply(r)
    /\ \A r \in Completed :
         (KeyConfigured /\ openaiInstalled)
           => /\ ExchangeOf(r, "summary") # {}
              /\ (\A n \in ExchangeOf(r, "summary") : ~exchanges[n].raised)
                   => ExchangeOf(r, "reply") # {}

\* a run whose first row got a summary and then a raising reply exchange, and whose
\* second row got both exchanges again
C10_Witness ==
    /\ pc = "done" /\ Len(summaries) = 2
    /\ \E a \in ExchangeOf(1, "summary") : exchanges[a].result = Ok
    /\ \E b \in ExchangeOf(1, "reply") : exchanges[b].raised
    /\ summaries[1] # Ok
    /\ \E a \in ExchangeOf(2, "summary") : \E b \in ExchangeOf(2, "reply") :
         ~exchanges[b].raised /\ summaries[2] = Ok

\* the run has ended with every row processed and the output table written
Finished ==
    /\ pc = "done"
    /\ Len(df) = Len(csv.rows)
    /\ Len(summaries) = Len(df) /\ Len(replies) = Len(df)
    /\ Len(OUT) = 1 /\ Len(OUT[1]) = Len(csv.rows)
    /\ \A r \in 1..Len(csv.rows) :
         /\ OUT[1][r].body = fillna(csv.rows[r].body)
         /\ OUT[1][r].summary = summaries[r]
         /\ OUT[1][r].auto_reply = replies[r]

\* C3: when the input table exists, whatever the exchanges do, the run never
\* aborts and in the end has terminated with every row processed in input order,
\* one summary and one auto_reply per row, and the output table written once,
\* after the last row.
C3_BatchCompletes ==
    /\ [](pc # "crashed")
    /\ [](/\ Len(summaries) = Len(replies)
          /\ Len(OUT) <= 1
          /\ OUT # <<>> => Len(summaries) = Len(df))
    /\ [][/\ i' \in {i, i + 1}
          /\ Len(summaries') \in {Len(summaries), Len(summaries) + 1}
          /\ Len(summaries') = Len(summaries) + 1 => i = Len(summaries')]_vars
    /\ (inputExists ~> Finished)

\* a finished run of two rows in which an exchange raised at the first row and the
\* second row got its summary from the generator
C3_Witness ==
    /\ Finished /\ Len(df) = 2
    /\ \E n \in ExchangesOf(1) : exchanges[n].raised
    /\ summaries[2] = Ok

(* -------------------- properties of the functions --------------------- *)

Rank(u) == IF u = S_high THEN 2 ELSE IF u = S_medium THEN 1 ELSE IF u = S_low THEN 0 ELSE -1

\* whether some keyword of keys occurs in text somewhere, whatever the case of the letters
Occurs(keys, text) ==
    \E j \in DOMAIN keys : \E a \in 1..(Len(text) - Len(keys[j]) + 1) :
      lower(SubSeq(text, a, a + Len(keys[j]) - 1)) = keys[j]

\* the urgency the tiers of keywords give a text
TierOf(text) ==
    IF Occurs(HighKeywords, text) THEN S_high
    ELSE IF Occurs(MediumKeywords, text) THEN S_medium
    ELSE S_low

\* C5: likely_urgency is the greater of detect_urgency(subject) and
\* detect_urgency(clean_body) under low < medium < high, where detect_urgency is high
\* if a high-tier keyword occurs in the text in any case (also beside a medium-tier
\* keyword), medium if only a medium-tier keyword occurs, and low otherwise.
C5_UrgencyIsMax ==
    call = "enriched" =>
      /\ ret.urg_subj = TierOf(ret.subject)
      /\ ret.urg_body = TierOf(ret.clean_body)
      /\ ret.likely_urgency \in {ret.urg_subj, ret.urg_body}
      /\ Rank(ret.likely_urgency) = Max(Rank(ret.urg_subj), Rank(ret.urg_body))

\* a subject with a medium-tier and a high-tier keyword, over a body of low urgency
C5_Witness ==
    /\ call = "enriched"
    /\ Occurs(MediumKeywords, ret.subject) /\ Occurs(HighKeywords, ret.subject)
    /\ ret.urg_subj = S_high /\ ret.urg_body = S_low /\ ret.likely_urgency = S_high
    /\ arg.body # NaN /\ arg.body # <<>>

\* C6: every derived label of a row is defined: the urgencies are low, medium or
\* high, the topic is one of the five topics, the sentiment is positive, negative or
\* neutral, no classifier raises, and an empty text gives low, general and neutral.
C6_ClassifiersTotal ==
    call = "enriched" =>
      /\ {ret.urg_subj, ret.urg_body, ret.likely_urgency} \subseteq {S_low, S_medium, S_high}
      /\ ret.subject_topic \in {T_billing, T_login, T_integration, T_system, T_general}
      /\ ret.sentiment \in {S_positive, S_negative, S_neutral}
      /\ ret.subject = <<>> => ret.urg_subj = S_low /\ ret.subject_topic = T_general
      /\ ret.clean_body = <<>> => ret.urg_body = S_low /\ ret.sentiment = S_neutral
      /\ (arg.subject \in {NaN, <<>>} /\ arg.body \in {NaN, <<>>})
           => /\ ret.likely_urgency = S_low
              /\ ret.subject_topic = T_general
              /\ ret.sentiment = S_neutral

\* a row whose sender, subject and body are all missing, classified
C6_Witness ==
    /\ call = "enriched"
    /\ arg.sender = NaN /\ arg.subject = NaN /\ arg.body = NaN
    /\ ret.likely_urgency = S_low /\ ret.subject_topic = T_general /\ ret.sentiment = S_neutral

\* the positions at which a line of t starts
LineStarts(t) == {p \in 1..Len(t) : p = 1 \/ t[p - 1] = "\n"}

\* whether the line of t that starts at p is a boundary marker: a line of only
\* `--`, or a line that starts with `Regards,`, `Best,` or `Thanks,`
IsMarkerLine(t, p) ==
    \/ StartsAt(t, p, <<"-","-">>) /\ (p + 2 > Len(t) \/ t[p + 2] = "\n")
    \/ StartsAt(t, p, <<"R","e","g","a","r","d","s",",">>)
    \/ StartsAt(t, p, <<"B","e","s","t",",">>)
    \/ StartsAt(t, p, <<"T","h","a","n","k","s",",">>)

\* the text before the first marker line of t, all of t without one, trimmed
BeforeFirstMarker(t) ==
    LET marks == {p \in LineStarts(t) : IsMarkerLine(t, p)}
    IN  IF marks = {} THEN strip(t)
        ELSE strip(SubSeq(t, 1, (CHOOSE p \in marks : \A q \in marks : p <= q) - 1))

\* C7: clean_text returns the text before the first boundary marker, trimmed, a
\* marker being any line of only `--` or any line that starts with `Regards,`,
\* `Best,` or `Thanks,`, the first line of the body and a last line `--` without a
\* newline after it included; a body without a marker is returned whole, its CRLF
\* and blank lines normalized, trimmed.
C7_TruncatesAtMarkerLine ==
    call = "clean_text" => ret = BeforeFirstMarker(CollapseNewlines(SubCRLF(arg)))

\* the whitespace-separated tokens of t, read from position p on; cur is the token begun
RECURSIVE TokensFrom(_, _, _)
TokensFrom(t, p, cur) ==
    IF p > Len(t) THEN (IF cur = <<>> THEN <<>> ELSE <<cur>>)
    ELSE IF IsSpace(t[p])
         THEN (IF cur = <<>> THEN <<>> ELSE <<cur>>) \o TokensFrom(t, p + 1, <<>>)
         ELSE TokensFrom(t, p + 1, Append(cur, t[p]))

\* the first n of the tokens ws, each but the last followed by one space
RECURSIVE Spaced(_, _)
Spaced(ws, n) ==
    IF n <= 0 \/ ws = <<>> THEN <<>>
    ELSE IF n = 1 \/ Len(ws) = 1 THEN ws[1]
    ELSE ws[1] \o <<" ">> \o Spaced(Tail(ws), n - 1)

\* what the claim says of summarize(text, N): the first min(N, count) tokens joined
\* by single spaces, and then the ellipsis marker exactly when count > N
Truncated(text, N) ==
    LET ws == TokensFrom(text, 1, <<>>)
    IN  Spaced(ws, Min(N, Len(ws))) \o (IF Len(ws) > N THEN <<".",".",".">> ELSE <<>>)

\* C8 as stated: for every text and every max_words N, summarize gives the first
\* min(N, count) tokens joined by single spaces and then the ellipsis marker exactly
\* when count > N, and '' for an empty text; summarize("a b c", 5) is "a b c" and
\* summarize("a b c d e f", 5) is "a b c d e ...".
C8_AsStated ==
    /\ call = "summarize" => ret = Truncated(arg.text, arg.max_words)
    /\ (call = "summarize" /\ arg.text = <<>> /\ arg.max_words >= 0) => ret = <<>>
    /\ (call = "summarize" /\ arg = [text |-> <<"a"," ","b"," ","c">>,
           max_words |-> 5]) => ret = <<"a"," ","b"," ","c">>
    /\ (call = "summarize" /\ arg = [text |-> <<"a"," ","b"," ","c"," ","d"," ","e"," ","f"
          >>, max_words |-> 5])
         => ret = <<"a"," ","b"," ","c"," ","d"," ","e"," ",".",".",".">>

\* C8, amended: for every text and every max_words N >= 0, summarize gives the first
\* min(N, count) tokens joined by single spaces and then, with no space between, the
\* ellipsis marker exactly when count > N, and '' for an empty text;
\* summarize("a b c", 5) is "a b c" and summarize("a b c d e f", 5) is "a b c d e...".
C8_Summarize ==
    /\ (call = "summarize" /\ arg.max_words >= 0) => ret = Truncated(arg.text, arg.max_words)
    /\ (call = "summarize" /\ arg.text = <<>> /\ arg.max_words >= 0) => ret = <<>>
    /\ (call = "summarize" /\ arg = [text |-> <<"a"," ","b"," ","c">>,
           max_words |-> 5]) => ret = <<"a"," ","b"," ","c">>
    /\ (call = "summarize" /\ arg = [text |-> <<"a"," ","b"," ","c"," ","d"," ","e"," ","f"
          >>, max_words |-> 5])
         => ret = <<"a"," ","b"," ","c"," ","d"," ","e",".",".",".">>

\* summarize applied to six tokens with a limit of five
C8_Witness ==
    /\ call = "summarize"
    /\ arg = [text |-> <<"a"," ","b"," ","c"," ","d"," ","e"," ","f">>, max_words |-> 5]
    /\ ret = <<"a"," ","b"," ","c"," ","d"," ","e",".",".",".">>

====
